---- MODULE Spec2Model ----
(***************************************************************************)
(* Model of the head-pose monitor (src/App.tsx, services/poseDetection).   *)
(*                                                                         *)
(* The component is single threaded: every action below is one task of the *)
(* browser's event loop (a promise continuation chain, an animation-frame  *)
(* callback, a click dispatch, a toBlob callback, the unmount cleanup) and *)
(* runs to completion.  External capabilities (getUserMedia, the face      *)
(* landmarker, the analyser's sample buffer, the 2D context, the encoder,  *)
(* the share sheet) are inputs chosen with \E.                             *)
(*                                                                         *)
(* Numbers: matrix entries of the rotation part are in halves (2 = 1.0),   *)
(* angles before rounding are in hundredths of a degree, the Z translation *)
(* and the volume levels are in hundredths.                                *)
(***************************************************************************)
EXTENDS Integers, Sequences, FiniteSets, TLC

(***************************************************************************)
(* Bounds of the model                                                     *)
(***************************************************************************)
MaxFrames == 3      \* animation frames executed in one behaviour
MaxCalls == 2       \* calls of takeScreenshot in one behaviour
MaxVideo == 6       \* largest video width and height of the crop inputs
MaxScreen == 4      \* largest window width and height of the crop inputs
MaxSteps == 3       \* ticks of the smoothing step under a constant raw level
MaxWindow == 8      \* largest window width and height of the layout inputs

(***************************************************************************)
(* Numeric helpers                                                         *)
(***************************************************************************)
\* The value the model uses for IEEE NaN (outside every decoded range).
NaN == 100000

Abs(x) == IF x < 0 THEN -x ELSE x

\* Math.round on a value in hundredths: nearest integer, halves go up.
MathRound(c) == IF c = NaN THEN NaN ELSE (c + 50) \div 100

\* AsinDeg with the ends of the domain left out.
AsinDeg_Open(x) ==
  CASE x = 0 -> 0
    [] x = 1 -> 3000
    [] x = -1 -> -3000
    [] OTHER -> NaN

\* Math.asin(x) * (180 / Math.PI), x in halves, result in hundredths of a
\* degree; NaN outside [-1, 1].
AsinDeg(x) ==
  CASE x = 0 -> 0
    [] x = 1 -> 3000
    [] x = -1 -> -3000
    [] x = 2 -> 9000
    [] x = -2 -> -9000
    [] OTHER -> NaN

\* atan(a / b) in hundredths of a degree for a >= 0, b > 0.
AtanPos(a, b) ==
  CASE a = 0 -> 0
    [] a = b -> 4500
    [] 2 * a = b -> 2657
    [] a = 2 * b -> 6343
    [] OTHER -> NaN

\* Atan2Deg that adds the half turn for every negative x.
Atan2Deg_NoWrap(y, x) ==
  CASE x > 0 /\ y >= 0 -> AtanPos(y, x)
    [] x > 0 /\ y < 0 -> -AtanPos(-y, x)
    [] x < 0 /\ y >= 0 -> 18000 - AtanPos(y, -x)
    [] x < 0 /\ y < 0 -> 18000 + AtanPos(-y, -x)
    [] x = 0 /\ y > 0 -> 9000
    [] x = 0 /\ y < 0 -> -9000
    [] OTHER -> 0

\* Math.atan2(y, x) * (180 / Math.PI) in hundredths of a degree.
Atan2Deg(y, x) ==
  CASE x > 0 /\ y >= 0 -> AtanPos(y, x)
    [] x > 0 /\ y < 0 -> -AtanPos(-y, x)
    [] x < 0 /\ y >= 0 -> 18000 - AtanPos(y, -x)
    [] x < 0 /\ y < 0 -> AtanPos(-y, -x) - 18000
    [] x = 0 /\ y > 0 -> 9000
    [] x = 0 /\ y < 0 -> -9000
    [] OTHER -> 0

(***************************************************************************)
(* Face tracking: matrices and PoseDetectionService.detect                 *)
(***************************************************************************)
Mat(m2, m4, m5, m6, m10, m14) ==
  [m2 |-> m2, m4 |-> m4, m5 |-> m5, m6 |-> m6, m10 |-> m10, m14 |-> m14]

IdentityMatrix == Mat(0, 0, 2, 0, 2, 0)

\* The transformation matrices the face landmarker reports in a session.
\* The last has |m[6]| > 1 (numerical drift).
Matrices ==
  { Mat(1, -1, 2, -1, 2, -4550),
    Mat(1, 0, 2, -3, -2, -2000) }

\* What faceLandmarker.detectForVideo can do on one call.
DetectOutcomes ==
  { [kind |-> "throws", m |-> IdentityMatrix],
    [kind |-> "noFace", m |-> IdentityMatrix] }
  \cup { [kind |-> "face", m |-> mm] : mm \in Matrices }

NoResult == [some |-> FALSE, pitch |-> 0, yaw |-> 0, roll |-> 0, distance |-> 0]

\* Decode with the arguments of the roll's atan2 exchanged.
Decode_SwappedRoll(m) ==
  [some |-> TRUE,
   pitch |-> MathRound(AsinDeg(-m.m6)),
   yaw |-> MathRound(Atan2Deg(m.m2, m.m10)),
   roll |-> MathRound(Atan2Deg(m.m5, m.m4)),
   distance |-> MathRound(Abs(m.m14))]

\* Lines 32-46 of detect: the four fields decoded from one matrix.
Decode(m) ==
  [some |-> TRUE,
   pitch |-> MathRound(AsinDeg(-m.m6)),
   yaw |-> MathRound(Atan2Deg(m.m2, m.m10)),
   roll |-> MathRound(Atan2Deg(m.m4, m.m5)),
   distance |-> MathRound(Abs(m.m14))]

\* PoseDetectionService.detect, for a call that does not throw.
detect(landmarker, outcome) ==
  IF ~landmarker THEN NoResult
  ELSE IF outcome.kind = "face" THEN Decode(outcome.m)
  ELSE NoResult

\* The matrices a decoding is tried on: every rotation entry from -1.0 to
\* 1.0 in halves, m[6] also beyond that range.
RotationEntries == -2..2
DecodeInputs ==
  { Mat(a, b, c, d, e, f) :
      a \in RotationEntries, b \in RotationEntries, c \in RotationEntries,
      d \in -3..3, e \in RotationEntries, f \in {-4550, 0, 1250} }

\* A valid transformation matrix: its rotation entries are within [-1, 1].
ValidMatrix(m) ==
  /\ m.m2 \in RotationEntries
  /\ m.m4 \in RotationEntries
  /\ m.m5 \in RotationEntries
  /\ m.m6 \in RotationEntries
  /\ m.m10 \in RotationEntries

(***************************************************************************)
(* Cover crop and canvas size (App.tsx 116-144)                            *)
(***************************************************************************)
\* Line 121.
Dpr == 2

\* CanvasSize with the pixel ratio applied to the width only.
CanvasSize_WidthOnly(screenW, screenH) ==
  [width |-> screenW * Dpr, height |-> screenH]

\* Lines 122-123: the size of the output canvas.
CanvasSize(screenW, screenH) ==
  [width |-> screenW * Dpr, height |-> screenH * Dpr]

\* VideoWider with the comparison reversed.
VideoWider_Reversed(vW, vH, screenW, screenH) == vW * screenH < screenW * vH

\* VideoWider that compares the widths instead of the ratios.
VideoWider_Widths(vW, vH, screenW, screenH) == vW > screenW

\* Lines 128-132: videoRatio > screenRatio, without the divisions.
VideoWider(vW, vH, screenW, screenH) == vW * screenH > screenW * vH

\* CoverCrop that does not centre the crop of a wider video.
CoverCrop_NotCentred(vW, vH, screenW, screenH) ==
  LET den == 2 * screenW * screenH
  IN IF VideoWider(vW, vH, screenW, screenH)
       THEN [den |-> den,
             sH |-> den * vH,
             sW |-> 2 * screenW * screenW * vH,
             sx |-> 0,
             sy |-> 0]
       ELSE [den |-> den,
             sW |-> den * vW,
             sH |-> 2 * screenH * screenH * vW,
             sx |-> 0,
             sy |-> screenW * screenH * vH - screenH * screenH * vW]

\* Lines 131-144.  The four values are rationals; the record holds their
\* numerators over the common denominator den = 2 * screenW * screenH.
CoverCrop(vW, vH, screenW, screenH) ==
  LET den == 2 * screenW * screenH
  IN IF VideoWider(vW, vH, screenW, screenH)
       THEN [den |-> den,
             sH |-> den * vH,
             sW |-> 2 * screenW * screenW * vH,
             sx |-> screenW * screenH * vW - screenW * screenW * vH,
             sy |-> 0]
       ELSE [den |-> den,
             sW |-> den * vW,
             sH |-> 2 * screenH * screenH * vW,
             sx |-> 0,
             sy |-> screenW * screenH * vH - screenH * screenH * vW]

\* The video and window sizes a crop is tried on.
CropInputs ==
  { [vW |-> a, vH |-> b, screenW |-> c, screenH |-> d] :
      a \in 1..MaxVideo, b \in 1..MaxVideo, c \in 1..MaxScreen, d \in 1..MaxScreen }
  \cup { [vW |-> 1920, vH |-> 1080, screenW |-> 9, screenH |-> 16],
         [vW |-> 1080, vH |-> 1920, screenW |-> 16, screenH |-> 9] }

(***************************************************************************)
(* HUD layout of the composite (App.tsx 151-217)                           *)
(***************************************************************************)
\* Line 152: the canvas width at which the HUD has its design size.
RefWidth == 400

\* uiScale that takes the design size at every width.
uiScale_Fixed(width) == RefWidth

\* Line 152: uiScale = canvas.width / 400, as a numerator over RefWidth.
uiScale(width) == width

\* Lines 153-217: the lengths the HUD is drawn with on a canvas of the given
\* width, as numerators over RefWidth.
HudLayout(width) ==
  LET u == uiScale(width)
      margin == 16 * u
      panelH == 165 * u
      statusY == margin + panelH + 12 * u
  IN [margin |-> margin,
      panelW |-> 120 * u,
      panelH |-> panelH,
      cornerRadius |-> 20 * u,
      lineWidth |-> 1 * u,
      labelFont |-> 9 * u,
      labelX |-> margin + 14 * u,
      valueFont |-> 15 * u,
      valueX |-> margin + 44 * u,
      startY |-> margin + 36 * u,
      gap |-> 26 * u,
      statusY |-> statusY,
      statusW |-> 75 * u,
      statusH |-> 22 * u,
      statusRadius |-> 11 * u,
      dotX |-> margin + 12 * u,
      dotY |-> statusY + 11 * u,
      dotRadius |-> 3 * u,
      statusFont |-> 8 * u,
      statusLabelX |-> margin + 22 * u,
      statusLabelY |-> statusY + 14 * u]

\* Window sizes of the layout inputs: a small grid and three real screens.
LayoutInputs ==
  { [screenW |-> w, screenH |-> h] : w \in 1..MaxWindow, h \in 1..MaxWindow }
  \cup { [screenW |-> 375, screenH |-> 667], [screenW |-> 200, screenH |-> 400],
         [screenW |-> 1920, screenH |-> 1080] }

(***************************************************************************)
(* Volume estimator                                                        *)
(***************************************************************************)
\* Buffers are uniform: every one of the 128 samples has the same byte
\* (128 is silence, 0 the largest amplitude).
Samples == {128, 0}

\* The values of a byte sample (Uint8Array, line 67).
Bytes == 0..255

\* The bytes of the uniform buffers fed to the estimator: silence and the
\* amplitudes 1, 2, 4, ..., 128 on either side of 128 (steps of 6 dB, from
\* the smallest to the largest level a buffer can have).
Buffers ==
  {s \in Bytes : Abs(s - 128) \in {0, 1, 2, 4, 8, 16, 32, 64, 128}}

\* max(0, 20 * log10(rms) + 95) in hundredths for rms = d / 128, by d = 0..128
\* (lines 84-86); the entry of d = 0 is the branch rms > 0 being false.
RawLevels ==
  <<
     0, 5286, 5888, 6240, 6490, 6684, 6842, 6976, 7092, 7194,
     7286, 7368, 7444, 7513, 7578, 7638, 7694, 7746, 7796, 7843,
     7888, 7930, 7970, 8009, 8046, 8081, 8116, 8148, 8180, 8210,
     8240, 8268, 8296, 8323, 8349, 8374, 8398, 8422, 8445, 8468,
     8490, 8511, 8532, 8553, 8572, 8592, 8611, 8630, 8648, 8666,
     8684, 8701, 8718, 8734, 8750, 8766, 8782, 8797, 8812, 8827,
     8842, 8856, 8870, 8884, 8898, 8911, 8925, 8938, 8951, 8963,
     8976, 8988, 9000, 9012, 9024, 9036, 9047, 9059, 9070, 9081,
     9092, 9103, 9113, 9124, 9134, 9144, 9155, 9165, 9175, 9184,
     9194, 9204, 9213, 9223, 9232, 9241, 9250, 9259, 9268, 9277,
     9286, 9294, 9303, 9311, 9320, 9328, 9336, 9344, 9352, 9360,
     9368, 9376, 9384, 9392, 9399, 9407, 9414, 9422, 9429, 9437,
     9444, 9451, 9458, 9465, 9472, 9479, 9486, 9493, 9500 >>

\* RawVolume with 0 instead of -100 as the decibel value of rms = 0.
RawVolume_ZeroDb(s) ==
  IF s = 128 THEN 9500 ELSE RawLevels[Abs(s - 128) + 1]

\* Lines 80-86: the raw level of a uniform buffer of sample s, in hundredths.
RawVolume(s) == RawLevels[Abs(s - 128) + 1]

\* Smooth that adds the new level without weighting the old one down.
Smooth_NoDecay(raw, smoothed) == (15 * raw + 100 * smoothed) \div 100

\* alpha * rawVolume + (1 - alpha) * smoothed, alpha = 0.15, in hundredths.
Smooth(raw, smoothed) == (15 * raw + 85 * smoothed) \div 100

\* SmoothExact with the two weights exchanged.
SmoothExact_Swapped(raw, num, den) == 17 * raw * den + 3 * num

\* Line 88 without rounding: alpha = 3/20, 1 - alpha = 17/20.  The level
\* num / den becomes SmoothExact(raw, num, den) / (20 * den).
SmoothExact(raw, num, den) == 3 * raw * den + 17 * num

(***************************************************************************)
(* State                                                                   *)
(***************************************************************************)
VARIABLES
  initPc,             \* position of the init() async function of the effect
  mounted,            \* the component is mounted (cleanup has not run)
  faceLandmarker,     \* poseService.faceLandmarker is non-null
  streamRef,          \* "null", "live" (tracks running), "stopped"
  audioContextRef,    \* "null", "running", "closed"
  analyserRef,        \* analyserRef.current is non-null
  videoSrc,           \* the video element has the stream as srcObject
  isLoading,
  error,              \* "null", "sensor", "init"
  smoothedVolumeRef,  \* hundredths
  pose,               \* the PoseState held by useState
  rafPending,         \* number of scheduled requestAnimationFrame(updateFrame)
  frames,             \* number of updateFrame executions so far
  lastFrame,          \* what the latest updateFrame execution did
  isCapturing,        \* committed value of the isCapturing state
  pendingCapturing,   \* a setIsCapturing(false) waits for its commit
  captures,           \* one record per accepted takeScreenshot call
  sink,               \* images handed to navigator.share or the download link
  calls,              \* number of takeScreenshot calls so far
  crop,               \* a cover-crop computation: its input and its result
  decoded,            \* a matrix decoding: its input and its result
  volume,             \* the volume estimator driven by a stream of buffers
  step,               \* the smoothing step under a constant raw level
  layout              \* a HUD layout computation: its input and its result

vars == <<initPc, mounted, faceLandmarker, streamRef, audioContextRef,
          analyserRef, videoSrc, isLoading, error, smoothedVolumeRef, pose,
          rafPending, frames, lastFrame, isCapturing, pendingCapturing,
          captures, sink, calls, crop, decoded, volume, step, layout>>

sessionVars == <<initPc, mounted, faceLandmarker, streamRef, audioContextRef,
                 analyserRef, videoSrc, isLoading, error>>
frameVars == <<smoothedVolumeRef, pose, rafPending, frames, lastFrame>>
captureVars == <<isCapturing, pendingCapturing, captures, sink, calls>>
calcVars == <<crop, decoded, volume, step, layout>>

InitialPose == [pitch |-> 0, yaw |-> 0, roll |-> 0, distance |-> 0, volume |-> 0]

\* Record of the latest updateFrame execution: kind is "none" (no frame
\* yet), "ok" or "threw"; called: detect was called; sample: detect returned
\* a pose; audio: the analyser branch ran; afterStop: it ran after cleanup;
\* setPose: the number of setPose calls it made.
NoFrame == [kind |-> "none", called |-> FALSE, sample |-> FALSE, audio |-> FALSE,
            afterStop |-> FALSE, setPose |-> 0]

\* No crop computed and no matrix decoded.
IdleCrop ==
  [input |-> [vW |-> 1, vH |-> 1, screenW |-> 1, screenH |-> 1], done |-> FALSE,
   rect |-> [den |-> 1, sW |-> 0, sH |-> 0, sx |-> 0, sy |-> 0],
   canvas |-> [width |-> 0, height |-> 0]]
IdleDecode == [m |-> IdentityMatrix, done |-> FALSE, out |-> NoResult]

\* The estimator as line 12 leaves it: level 0, nothing published yet.
\* silent: the input has become all-128 buffers for good; decayed: a tick of
\* that silence has lowered the level.
IdleVolume ==
  [smoothed |-> 0, display |-> 0, silent |-> FALSE, decayed |-> FALSE]

\* No smoothing step taken: the level is num / den after n ticks.
IdleStep == [raw |-> 0, n |-> 0, num |-> 0, den |-> 1]

\* No HUD laid out.
IdleLayout ==
  [screenW |-> 1, screenH |-> 1, done |-> FALSE, width |-> 0, dims |-> <<>>]

InitApp ==
  /\ initPc = "awaitInit"
  /\ mounted = TRUE
  /\ faceLandmarker = FALSE
  /\ streamRef = "null"
  /\ audioContextRef = "null"
  /\ analyserRef = FALSE
  /\ videoSrc = FALSE
  /\ isLoading = TRUE
  /\ error = "null"
  /\ smoothedVolumeRef = 0
  /\ pose = InitialPose
  /\ rafPending = 0
  /\ frames = 0
  /\ lastFrame = NoFrame
  /\ isCapturing = FALSE
  /\ pendingCapturing = FALSE
  /\ captures = <<>>
  /\ sink = {}
  /\ calls = 0

Init ==
  /\ InitApp
  /\ crop = IdleCrop
  /\ decoded = IdleDecode
  /\ volume = IdleVolume
  /\ step = IdleStep
  /\ layout = IdleLayout

\* A state setter of an unmounted component is ignored by React.
SetState(isMounted, cur, new) == IF isMounted THEN new ELSE cur


(***************************************************************************)
(* updateFrame (App.tsx 69-102)                                            *)
(***************************************************************************)
\* Line 73: videoRef.current && videoRef.current.readyState >= 2.
VideoReady(isMounted, hasSrc, ready) == isMounted /\ hasSrc /\ ready

\* DisplayVolume with the local initialised to the decibel floor.
DisplayVolume_Floor(hasAnalyser, smoothed) ==
  IF hasAnalyser THEN MathRound(smoothed) ELSE -100

\* Lines 70 and 89: the volume put into the PoseState of this frame.
DisplayVolume(hasAnalyser, smoothed) ==
  IF hasAnalyser THEN MathRound(smoothed) ELSE 0

\* MergePose that starts from a fresh PoseState when there is no sample.
MergePose_Zeroed(prev, res, vol) ==
  IF res.some
    THEN [pitch |-> res.pitch, yaw |-> res.yaw, roll |-> res.roll,
          distance |-> res.distance, volume |-> vol]
    ELSE [pitch |-> 0, yaw |-> 0, roll |-> 0, distance |-> 0, volume |-> vol]

\* MergePose that copies only two of the sample's fields.
MergePose_Partial(prev, res, vol) ==
  IF res.some
    THEN [prev EXCEPT !.pitch = res.pitch, !.yaw = res.yaw, !.volume = vol]
    ELSE [prev EXCEPT !.volume = vol]

\* Lines 92-99: the PoseState handed to setPose.
MergePose(prev, res, vol) ==
  IF res.some
    THEN [pitch |-> res.pitch, yaw |-> res.yaw, roll |-> res.roll,
          distance |-> res.distance, volume |-> vol]
    ELSE [prev EXCEPT !.volume = vol]

\* Line 101: the callbacks a frame that reaches its end schedules.
Successors(completed) == IF completed THEN 1 ELSE 0

\* One execution of updateFrame: the values it leaves behind.
updateFrame(isMounted, hasSrc, landmarker, hasAnalyser, curPose, curSmoothed, ready, outcome, sample) ==
  LET called == VideoReady(isMounted, hasSrc, ready)
      threw == called /\ landmarker /\ outcome.kind = "throws"
      res == IF called THEN detect(landmarker, outcome) ELSE NoResult
      smoothed == IF hasAnalyser THEN Smooth(RawVolume(sample), curSmoothed)
                  ELSE curSmoothed
      vol == DisplayVolume(hasAnalyser, smoothed)
  IN IF threw
       THEN [pose |-> curPose, smoothed |-> curSmoothed, raf |-> 0,
             log |-> [kind |-> "threw", called |-> TRUE, sample |-> FALSE,
                      audio |-> FALSE, afterStop |-> ~isMounted, setPose |-> 0]]
       ELSE [pose |-> SetState(isMounted, curPose, MergePose(curPose, res, vol)),
             smoothed |-> smoothed, raf |-> Successors(TRUE),
             log |-> [kind |-> "ok", called |-> called, sample |-> res.some,
                      audio |-> hasAnalyser, afterStop |-> ~isMounted,
                      setPose |-> 1]]

\* The animation-frame callback.
UpdateFrame ==
  /\ rafPending > 0
  /\ frames < MaxFrames
  /\ \E ready \in BOOLEAN, outcome \in DetectOutcomes, sample \in Samples :
       LET r == updateFrame(mounted, videoSrc, faceLandmarker, analyserRef,
                            pose, smoothedVolumeRef, ready, outcome, sample)
       IN /\ pose' = r.pose
          /\ smoothedVolumeRef' = r.smoothed
          /\ rafPending' = rafPending - 1 + r.raf
          /\ lastFrame' = r.log
  /\ frames' = frames + 1
  /\ UNCHANGED calcVars
  /\ UNCHANGED <<sessionVars, captureVars>>

(***************************************************************************)
(* Session: the effect's init(), setupSensors, startMonitoring, cleanup    *)
(***************************************************************************)
\* InitResolved that does not await setupSensors: startMonitoring runs
\* while getUserMedia is pending.
InitResolved_NoAwait ==
  /\ initPc = "awaitInit"
  /\ faceLandmarker' = TRUE
  /\ isLoading' = SetState(mounted, isLoading, TRUE)
  /\ initPc' = "awaitUserMedia"
  /\ rafPending' = rafPending + 1
  /\ UNCHANGED calcVars
  /\ UNCHANGED <<mounted, streamRef, audioContextRef, analyserRef, videoSrc,
                 error, smoothedVolumeRef, pose, frames, lastFrame,
                 captureVars>>

\* poseService.init() resolves (part_002 7-21); init() goes on into
\* setupSensors up to its await of getUserMedia (App.tsx 30-39).
InitResolved ==
  /\ initPc = "awaitInit"
  /\ faceLandmarker' = TRUE
  /\ isLoading' = SetState(mounted, isLoading, TRUE)
  /\ initPc' = "awaitUserMedia"
  /\ UNCHANGED calcVars
  /\ UNCHANGED <<mounted, streamRef, audioContextRef, analyserRef, videoSrc,
                 error, frameVars, captureVars>>

\* poseService.init() rejects: the catch of init() (App.tsx 254-257).
InitRejected ==
  /\ initPc = "awaitInit"
  /\ error' = SetState(mounted, error, "init")
  /\ initPc' = "failed"
  /\ UNCHANGED calcVars
  /\ UNCHANGED <<mounted, faceLandmarker, streamRef, audioContextRef,
                 analyserRef, videoSrc, isLoading, frameVars, captureVars>>

\* getUserMedia settles: the rest of setupSensors (App.tsx 40-63), then
\* startMonitoring and its first, synchronous updateFrame (App.tsx 253,
\* 66-103).  The video element was given its source in this very task, so
\* its readyState is still 0 in that first frame.
UserMediaSettled ==
  /\ initPc = "awaitUserMedia"
  /\ frames < MaxFrames
  /\ \E granted \in BOOLEAN, audioOk \in BOOLEAN, sample \in Samples :
       LET hasStream == granted
           hasAudio == granted /\ audioOk
           hasSrc == hasStream /\ mounted
           r == updateFrame(mounted, hasSrc, faceLandmarker, hasAudio, pose,
                            smoothedVolumeRef, FALSE,
                            [kind |-> "noFace", m |-> IdentityMatrix], sample)
       IN /\ streamRef' = IF hasStream THEN "live" ELSE streamRef
          /\ videoSrc' = hasSrc
          /\ audioContextRef' = IF hasAudio THEN "running" ELSE audioContextRef
          /\ analyserRef' = hasAudio
          /\ error' = IF hasAudio THEN error ELSE SetState(mounted, error, "sensor")
          /\ isLoading' = IF hasAudio THEN isLoading
                          ELSE SetState(mounted, isLoading, FALSE)
          /\ pose' = r.pose
          /\ smoothedVolumeRef' = r.smoothed
          /\ rafPending' = rafPending + r.raf
          /\ lastFrame' = r.log
  /\ frames' = frames + 1
  /\ initPc' = "monitoring"
  /\ UNCHANGED calcVars
  /\ UNCHANGED <<mounted, faceLandmarker, captureVars>>

\* video.onloadedmetadata (App.tsx 44-47).
LoadedMetadata ==
  /\ mounted
  /\ videoSrc
  /\ isLoading
  /\ isLoading' = FALSE
  /\ UNCHANGED calcVars
  /\ UNCHANGED <<initPc, mounted, faceLandmarker, streamRef, audioContextRef,
                 analyserRef, videoSrc, error, frameVars, captureVars>>

\* stopCapture (App.tsx 20-27): what it does to the stream and the context.
stopCapture(stream, ctx) ==
  [stream |-> IF stream = "live" THEN "stopped" ELSE stream,
   ctx |-> IF ctx = "running" THEN "closed" ELSE ctx]

\* Unmount whose cleanup also drops the captures that are in flight.
Unmount_CancelsCapture ==
  /\ mounted
  /\ mounted' = FALSE
  /\ streamRef' = stopCapture(streamRef, audioContextRef).stream
  /\ audioContextRef' = stopCapture(streamRef, audioContextRef).ctx
  /\ captures' = [i \in 1..Len(captures) |->
                    IF captures[i].st \in {"encoding", "sharing"}
                      THEN [captures[i] EXCEPT !.st = "cancelled"]
                      ELSE captures[i]]
  /\ UNCHANGED calcVars
  /\ UNCHANGED <<initPc, faceLandmarker, analyserRef, videoSrc, isLoading,
                 error, frameVars, isCapturing, pendingCapturing, sink, calls>>

\* The component unmounts: the effect's cleanup runs stopCapture
\* (App.tsx 260) and React clears videoRef.
Unmount ==
  /\ mounted
  /\ mounted' = FALSE
  /\ streamRef' = stopCapture(streamRef, audioContextRef).stream
  /\ audioContextRef' = stopCapture(streamRef, audioContextRef).ctx
  /\ UNCHANGED calcVars
  /\ UNCHANGED <<initPc, faceLandmarker, analyserRef, videoSrc, isLoading,
                 error, frameVars, captureVars>>

\* React runs the effect again on the same component after its cleanup
\* (App.tsx 248-261; the effect is re-run by StrictMode and by Fast
\* Refresh): a new init() starts, refs and state are kept.
Remount ==
  /\ ~mounted
  /\ initPc \in {"monitoring", "failed"}
  /\ mounted' = TRUE
  /\ initPc' = "awaitInit"
  /\ UNCHANGED calcVars
  /\ UNCHANGED <<faceLandmarker, streamRef, audioContextRef, analyserRef,
                 videoSrc, isLoading, error, frameVars, captureVars>>

(***************************************************************************)
(* Capture: takeScreenshot (App.tsx 106-246)                               *)
(***************************************************************************)
\* Status of an accepted capture.
InFlight == {"encoding", "sharing"}
Ended == {"noCtx", "drawFailed", "emptyBlob", "done"}

\* Lines 183-196: the readout drawn on the canvas for a PoseState.
Hud(p) ==
  [yaw |-> Abs(p.yaw), pitch |-> Abs(p.pitch), roll |-> Abs(p.roll),
   distance |-> p.distance, volume |-> p.volume]

\* Lines 302-307: the readout of the live overlay for a PoseState; the
\* volume is pose.volume || 0.
LiveHud(p) ==
  [yaw |-> Abs(p.yaw), pitch |-> Abs(p.pitch), roll |-> Abs(p.roll),
   distance |-> p.distance,
   volume |-> IF p.volume = 0 \/ p.volume = NaN THEN 0 ELSE p.volume]

\* Lines 209 and 217: the dot and the label of the status indicator drawn on
\* the canvas.
CompositeStatus(p) == [dot |-> "emerald", label |-> "ACTIVE"]

\* Lines 311-312: the dot and the label of the live status indicator (the
\* label is shown in upper case).
LiveStatus(p) ==
  [dot |-> IF p.volume # 0 /\ p.volume # NaN /\ p.volume > 50
             THEN "pink" ELSE "emerald",
   label |-> "ACTIVE"]

\* What the composite and the live overlay show for a PoseState.
CompositeReadout(p) == [hud |-> Hud(p), status |-> CompositeStatus(p)]
LiveReadout(p) == [hud |-> LiveHud(p), status |-> LiveStatus(p)]

\* The readout of a canvas on which no HUD was drawn.
NoHud == [yaw |-> 0, pitch |-> 0, roll |-> 0, distance |-> 0, volume |-> 0]

\* EncodedHud that reads the PoseState current at encoding time.
EncodedHud_Current(drawn, current) == Hud(current)

\* Lines 220 and 236: toBlob and toDataURL encode the canvas as it was
\* drawn; the callback does not read the PoseState.
EncodedHud(drawn, current) == drawn

\* CaptureRejected without the test of the capturing flag.
CaptureRejected_NoFlag(hasVideo, capturing) == ~hasVideo

\* Line 107: the early return of takeScreenshot.
CaptureRejected(hasVideo, capturing) == ~hasVideo \/ capturing

\* BlobAccepted without the test of the blob.
BlobAccepted_Any(blobOk) == TRUE

\* Line 221: the toBlob callback goes on only with a blob.
BlobAccepted(blobOk) == blobOk

\* TakeScreenshot that cancels the pending animation frame while it draws.
TakeScreenshot_CancelsFrame ==
  /\ calls < MaxCalls
  /\ calls' = calls + 1
  /\ \E ctxOk \in BOOLEAN, drawOk \in BOOLEAN :
       IF CaptureRejected(mounted, isCapturing)
         THEN UNCHANGED <<isCapturing, captures>>
         ELSE IF ~ctxOk
           THEN /\ isCapturing' = TRUE
                /\ captures' = Append(captures,
                     [st |-> "noCtx", drawn |-> FALSE, hud |-> NoHud])
           ELSE IF ~drawOk
             THEN /\ isCapturing' = FALSE
                  /\ captures' = Append(captures,
                       [st |-> "drawFailed", drawn |-> FALSE, hud |-> NoHud])
             ELSE /\ isCapturing' = TRUE
                  /\ captures' = Append(captures,
                       [st |-> "encoding", drawn |-> TRUE, hud |-> Hud(pose)])
  /\ UNCHANGED calcVars
  /\ rafPending' = 0
  /\ UNCHANGED <<pendingCapturing, sink, sessionVars, smoothedVolumeRef, pose,
                 frames, lastFrame>>

\* A call of takeScreenshot: the whole synchronous body, up to canvas.toBlob
\* or an early exit.  isCapturing is the value of the committed render (the
\* closure the button holds); the update made by this click is flushed by
\* React before the browser dispatches another event.
TakeScreenshot ==
  /\ calls < MaxCalls
  /\ calls' = calls + 1
  /\ \E ctxOk \in BOOLEAN, drawOk \in BOOLEAN :
       IF CaptureRejected(mounted, isCapturing)
         THEN UNCHANGED <<isCapturing, captures>>
         ELSE IF ~ctxOk
           THEN /\ isCapturing' = TRUE
                /\ captures' = Append(captures,
                     [st |-> "noCtx", drawn |-> FALSE, hud |-> NoHud])
           ELSE IF ~drawOk
             THEN /\ isCapturing' = FALSE
                  /\ captures' = Append(captures,
                       [st |-> "drawFailed", drawn |-> FALSE, hud |-> NoHud])
             ELSE /\ isCapturing' = TRUE
                  /\ captures' = Append(captures,
                       [st |-> "encoding", drawn |-> TRUE, hud |-> Hud(pose)])
  /\ UNCHANGED calcVars
  /\ UNCHANGED <<pendingCapturing, sink, sessionVars, frameVars>>

\* The callback of canvas.toBlob (App.tsx 220-240), up to the await of
\* navigator.share or to its end.
ToBlobCallback ==
  /\ \E i \in 1..Len(captures), blobOk \in BOOLEAN, canShare \in BOOLEAN :
       /\ captures[i].st = "encoding"
       /\ IF ~BlobAccepted(blobOk)
            THEN /\ captures' = [captures EXCEPT ![i].st = "emptyBlob"]
                 /\ UNCHANGED <<sink, pendingCapturing>>
            ELSE /\ sink' = sink \cup {[id |-> i, blob |-> blobOk,
                                        hud |-> EncodedHud(captures[i].hud, pose)]}
                 /\ IF canShare
                      THEN /\ captures' = [captures EXCEPT ![i].st = "sharing"]
                           /\ UNCHANGED pendingCapturing
                      ELSE /\ captures' = [captures EXCEPT ![i].st = "done"]
                           /\ pendingCapturing' =
                                SetState(mounted, pendingCapturing, TRUE)
  /\ UNCHANGED calcVars
  /\ UNCHANGED <<isCapturing, calls, sessionVars, frameVars>>

\* navigator.share settles, resolved or rejected (App.tsx 225-232, 239).
ShareSettled ==
  /\ \E i \in 1..Len(captures) :
       /\ captures[i].st = "sharing"
       /\ captures' = [captures EXCEPT ![i].st = "done"]
  /\ pendingCapturing' = SetState(mounted, pendingCapturing, TRUE)
  /\ UNCHANGED calcVars
  /\ UNCHANGED <<isCapturing, sink, calls, sessionVars, frameVars>>

\* React commits the setIsCapturing(false) made outside an event handler.
CommitCapturing ==
  /\ mounted
  /\ pendingCapturing
  /\ isCapturing' = FALSE
  /\ pendingCapturing' = FALSE
  /\ UNCHANGED calcVars
  /\ UNCHANGED <<captures, sink, calls, sessionVars, frameVars>>

(***************************************************************************)
(* Specification                                                           *)
(***************************************************************************)
Next ==
  \/ InitResolved
  \/ InitRejected
  \/ UserMediaSettled
  \/ LoadedMetadata
  \/ UpdateFrame
  \/ Unmount
  \/ TakeScreenshot
  \/ ToBlobCallback
  \/ ShareSettled
  \/ CommitCapturing

Spec == Init /\ [][Next]_vars

(***************************************************************************)
(* The cover crop, applied to one input                                    *)
(***************************************************************************)
appVars == <<sessionVars, frameVars, captureVars>>

InitCrop ==
  /\ InitApp
  /\ decoded = IdleDecode
  /\ volume = IdleVolume
  /\ step = IdleStep
  /\ layout = IdleLayout
  /\ \E i \in CropInputs : crop = [IdleCrop EXCEPT !.input = i]

\* The sizing and crop steps of takeScreenshot (App.tsx 116-144).
ComputeCrop ==
  /\ ~crop.done
  /\ crop' = [crop EXCEPT
       !.done = TRUE,
       !.rect = CoverCrop(crop.input.vW, crop.input.vH,
                          crop.input.screenW, crop.input.screenH),
       !.canvas = CanvasSize(crop.input.screenW, crop.input.screenH)]
  /\ UNCHANGED <<appVars, decoded, volume, step, layout>>

SpecCrop == InitCrop /\ [][ComputeCrop]_vars

(***************************************************************************)
(* The decoder, applied to one matrix                                      *)
(***************************************************************************)
InitDecode ==
  /\ InitApp
  /\ crop = IdleCrop
  /\ volume = IdleVolume
  /\ step = IdleStep
  /\ layout = IdleLayout
  /\ \E m \in DecodeInputs : decoded = [IdleDecode EXCEPT !.m = m]

\* detect on a frame with one tracked face (part_002 28-46).
DecodeMatrix ==
  /\ ~decoded.done
  /\ decoded' = [decoded EXCEPT
       !.done = TRUE,
       !.out = detect(TRUE, [kind |-> "face", m |-> decoded.m])]
  /\ UNCHANGED <<appVars, crop, volume, step, layout>>

SpecDecode == InitDecode /\ [][DecodeMatrix]_vars

(***************************************************************************)
(* The volume estimator, driven by a stream of audio buffers               *)
(***************************************************************************)
\* The analyser branch of one updateFrame (App.tsx 77-90) on a uniform
\* buffer: any of Buffers while the input is free, 128 once it is silent.
AudioTick ==
  /\ \E s \in (IF volume.silent THEN {128} ELSE Buffers) :
       LET smoothed == Smooth(RawVolume(s), volume.smoothed)
       IN volume' = [volume EXCEPT
            !.smoothed = smoothed,
            !.display = DisplayVolume(TRUE, smoothed),
            !.decayed = volume.silent
                        /\ (volume.decayed \/ smoothed < volume.smoothed)]
  /\ UNCHANGED <<appVars, crop, decoded, step, layout>>

\* The microphone input (App.tsx 78) becomes silent and stays silent.
BeginSilence ==
  /\ ~volume.silent
  /\ volume' = [volume EXCEPT !.silent = TRUE]
  /\ UNCHANGED <<appVars, crop, decoded, step, layout>>

NextVolume == AudioTick \/ BeginSilence

SpecVolume == Init /\ [][NextVolume]_vars

\* Line 101: every tick requests the next one, and the browser runs each
\* requested animation frame.
SpecVolumeFair == SpecVolume /\ WF_vars(AudioTick)

(***************************************************************************)
(* The smoothing step under a constant raw level                           *)
(***************************************************************************)
\* The raw levels held constant: those of the uniform buffers and 100.
StepLevels == {RawLevels[i] : i \in DOMAIN RawLevels} \cup {10000}

InitStep ==
  /\ InitApp
  /\ crop = IdleCrop
  /\ decoded = IdleDecode
  /\ volume = IdleVolume
  /\ layout = IdleLayout
  /\ \E r \in StepLevels : step = [IdleStep EXCEPT !.raw = r]

\* Line 88 of one tick, the raw level being step.raw.
StepTick ==
  /\ step.n < MaxSteps
  /\ step' = [step EXCEPT
       !.n = step.n + 1,
       !.num = SmoothExact(step.raw, step.num, step.den),
       !.den = 20 * step.den]
  /\ UNCHANGED <<appVars, crop, decoded, volume, layout>>

SpecStep == InitStep /\ [][StepTick]_vars

(***************************************************************************)
(* The HUD layout, applied to one window size                              *)
(***************************************************************************)
InitLayout ==
  /\ InitApp
  /\ crop = IdleCrop
  /\ decoded = IdleDecode
  /\ volume = IdleVolume
  /\ step = IdleStep
  /\ \E i \in LayoutInputs :
       layout = [IdleLayout EXCEPT !.screenW = i.screenW, !.screenH = i.screenH]

\* The sizing and HUD steps of takeScreenshot (App.tsx 117-123, 151-217).
DrawHud ==
  /\ ~layout.done
  /\ LET width == CanvasSize(layout.screenW, layout.screenH).width
     IN layout' = [layout EXCEPT
          !.done = TRUE, !.width = width, !.dims = HudLayout(width)]
  /\ UNCHANGED <<appVars, crop, decoded, volume, step>>

SpecLayout == InitLayout /\ [][DrawHud]_vars

\* Captures and the events that start and stop the session; of the frames
\* only the first, run by startMonitoring itself.  The later frames touch
\* none of the variables a capture step reads for its guard or writes.
NextCapture ==
  \/ InitResolved
  \/ InitRejected
  \/ UserMediaSettled
  \/ LoadedMetadata
  \/ Unmount
  \/ TakeScreenshot
  \/ ToBlobCallback
  \/ ShareSettled
  \/ CommitCapturing

\* The browser runs its tasks: the callback of canvas.toBlob is a queued
\* task (App.tsx 220) and the promise of navigator.share settles when the
\* share sheet closes (App.tsx 225-232).
SpecCapture ==
  /\ Init
  /\ [][NextCapture]_vars
  /\ WF_vars(ToBlobCallback)
  /\ WF_vars(ShareSettled)

\* The session with restarts of the effect.
NextRestart == Next \/ Remount

SpecRestart == Init /\ [][NextRestart]_vars

TypeOK ==
  /\ initPc \in {"awaitInit", "awaitUserMedia", "monitoring", "failed"}
  /\ mounted \in BOOLEAN
  /\ faceLandmarker \in BOOLEAN
  /\ streamRef \in {"null", "live", "stopped"}
  /\ audioContextRef \in {"null", "running", "closed"}
  /\ analyserRef \in BOOLEAN
  /\ videoSrc \in BOOLEAN
  /\ isLoading \in BOOLEAN
  /\ error \in {"null", "sensor", "init"}
  /\ smoothedVolumeRef \in 0..9500
  /\ rafPending \in 0..MaxFrames
  /\ frames \in 0..MaxFrames
  /\ isCapturing \in BOOLEAN
  /\ pendingCapturing \in BOOLEAN
  /\ calls \in 0..MaxCalls
  /\ \A i \in 1..Len(captures) : captures[i].st \in InFlight \cup Ended

(***************************************************************************)
(* Properties                                                              *)
(***************************************************************************)
Angles(p) == <<p.pitch, p.yaw, p.roll, p.distance>>

InFlightCount ==
  Cardinality({i \in 1..Len(captures) : captures[i].st \in InFlight})

\* C1: a call of takeScreenshot made while the capturing flag is set starts
\* no render and emits no image, and at most one capture is in flight at
\* any time.
C1_OneCaptureInFlight ==
  /\ [](InFlightCount <= 1)
  /\ [][(calls' = calls + 1 /\ isCapturing)
          => (captures' = captures /\ sink' = sink)]_vars

\* A second call was made, and rejected, while the first capture is in flight.
C1_Witness ==
  /\ mounted
  /\ calls = 2
  /\ Len(captures) = 1
  /\ captures[1].st \in InFlight

\* C2: once every accepted capture has ended, in success or failure, and
\* React has committed, the capturing flag is clear.
C2_FlagClearedAfterCapture ==
  (/\ mounted
   /\ Len(captures) > 0
   /\ \A i \in 1..Len(captures) : captures[i].st \in Ended
   /\ ~pendingCapturing)
  => ~isCapturing

\* C3: every image handed to the share/download sink is a non-empty blob
\* of a capture that completed its drawing and reached the sink's branch.
C3_OnlyCompleteCapturesEmit ==
  \A e \in sink :
    /\ e.blob
    /\ captures[e.id].drawn
    /\ captures[e.id].st \in {"sharing", "done"}

\* A capture failed on the drawing context or on an empty blob and nothing
\* of it reached the sink.
C3_Witness ==
  \E i \in 1..Len(captures) :
    /\ captures[i].st \in {"noCtx", "emptyBlob"}
    /\ \A e \in sink : e.id # i

\* C4: a frame that gets no pose sample leaves pitch, yaw, roll and
\* distance of the PoseState as they were.
C4_AnglesCarriedOver ==
  [][(frames' = frames + 1 /\ lastFrame'.kind = "ok" /\ ~lastFrame'.sample)
      => Angles(pose') = Angles(pose)]_vars

\* A frame without a sample ran on a mounted component whose PoseState
\* holds the angles of an earlier sample.
C4_Witness ==
  /\ lastFrame.kind = "ok"
  /\ ~lastFrame.sample
  /\ ~lastFrame.afterStop
  /\ pose.distance # 0

\* C5: a frame that runs without an analyser leaves the volume of the
\* PoseState as it was.
C5_VolumeCarriedOver ==
  [][(frames' = frames + 1 /\ lastFrame'.kind = "ok" /\ ~lastFrame'.audio)
      => pose'.volume = pose.volume]_vars

\* A second frame ran without an analyser on a mounted component.
C5_Witness ==
  /\ lastFrame.kind = "ok"
  /\ ~lastFrame.audio
  /\ ~lastFrame.afterStop
  /\ ~analyserRef
  /\ frames >= 2

\* C6: after every frame, failed or not, the next frame is scheduled.
C6_NextFrameScheduled == lastFrame.kind # "none" => rafPending > 0

\* C7: no frame executes after the session was stopped.
C7_NoFrameAfterStop == ~lastFrame.afterStop

\* C8: after the session was stopped no acquired stream has running tracks
\* and no acquired audio context is open.
C8_ReleasedAfterStop ==
  ~mounted => (streamRef # "live" /\ audioContextRef # "running")

\* C9: pitch, yaw, roll and distance of the PoseState are the initial zeros
\* or the four values decoded from one matrix.
C9_AnglesFromOneMatrix ==
  \/ Angles(pose) = Angles(InitialPose)
  \/ \E m \in Matrices : Angles(pose) = Angles(Decode(m))

\* The PoseState holds a sample other than the identity's, published after
\* an earlier frame.
C9_Witness ==
  /\ lastFrame.sample
  /\ frames >= 3
  /\ pose.pitch \in {30, 90, -90}
  /\ pose.distance # 0

\* C10: no field of the PoseState is NaN.
C10_NoNaN ==
  /\ pose.pitch # NaN
  /\ pose.yaw # NaN
  /\ pose.roll # NaN
  /\ pose.distance # NaN
  /\ pose.volume # NaN

\* C11: at most one animation-frame callback is pending at any moment,
\* whatever the sequence of session starts, frames and stops.
C11_OnePendingCallback == rafPending <= 1

\* C12: every executed frame replaces the PoseState exactly once (one
\* setPose call carrying both the angles and the volume of that frame).
C12_OneSetPosePerFrame == lastFrame.kind # "none" => lastFrame.setPose = 1

\* C13: the crop rectangle lies inside the video frame: sx >= 0, sy >= 0,
\* sx + sWidth <= videoWidth and sy + sHeight <= videoHeight.
C13_CropInsideSource ==
  crop.done =>
    /\ crop.rect.sx >= 0
    /\ crop.rect.sy >= 0
    /\ crop.rect.sx + crop.rect.sW <= crop.rect.den * crop.input.vW
    /\ crop.rect.sy + crop.rect.sH <= crop.rect.den * crop.input.vH

\* A crop that cuts the sides of the video was computed.
C13_Witness == crop.done /\ crop.rect.sx > 0

\* C14: a video relatively wider than the window keeps its full height and
\* is centred horizontally with sWidth = videoHeight * screenW / screenH;
\* otherwise it keeps its full width and is centred vertically with
\* sHeight = videoWidth * screenH / screenW.
C14_CropBranches ==
  crop.done =>
    LET i == crop.input
        r == crop.rect
        k == crop.rect.den
    IN IF i.vW * i.screenH > i.screenW * i.vH
         THEN /\ r.sH = k * i.vH
              /\ r.sW * i.screenH = k * i.vH * i.screenW
              /\ r.sW <= k * i.vW
              /\ 2 * r.sx = k * i.vW - r.sW
              /\ r.sy = 0
         ELSE /\ r.sW = k * i.vW
              /\ r.sH * i.screenW = k * i.vW * i.screenH
              /\ r.sx = 0
              /\ 2 * r.sy = k * i.vH - r.sH

\* The crop of a 1920x1080 video for a 9:16 window was computed.
C14_Witness ==
  /\ crop.done
  /\ crop.input = [vW |-> 1920, vH |-> 1080, screenW |-> 9, screenH |-> 16]
  /\ crop.rect.sH = crop.rect.den * 1080

\* C15: with the window unchanged, the crop of a video of twice the width
\* and twice the height has twice the sx, sy, sWidth and sHeight.
C15_CropScales ==
  crop.done =>
    CoverCrop(2 * crop.input.vW, 2 * crop.input.vH,
              crop.input.screenW, crop.input.screenH)
      = [den |-> crop.rect.den,
         sW |-> 2 * crop.rect.sW, sH |-> 2 * crop.rect.sH,
         sx |-> 2 * crop.rect.sx, sy |-> 2 * crop.rect.sy]

\* A crop that cuts the top and bottom of the video was computed.
C15_Witness == crop.done /\ crop.rect.sy > 0

\* C16: the crop rectangle has the aspect ratio of the output canvas:
\* sWidth * canvas.height = sHeight * canvas.width.
C16_CropHasCanvasRatio ==
  crop.done =>
    crop.rect.sW * crop.canvas.height = crop.rect.sH * crop.canvas.width

\* A crop for a landscape canvas of twice the window's size was computed.
C16_Witness ==
  /\ crop.done
  /\ crop.canvas.width > crop.canvas.height
  /\ crop.canvas.width = 2 * crop.input.screenW

\* C18: for a valid matrix the decoder returns pitch, yaw and roll within
\* -180..180 and a distance that is a natural number.
C18_DecodedRanges ==
  (decoded.done /\ ValidMatrix(decoded.m)) =>
    /\ decoded.out.some
    /\ decoded.out.pitch \in -180..180
    /\ decoded.out.yaw \in -180..180
    /\ decoded.out.roll \in -180..180
    /\ decoded.out.distance \in Nat

\* A valid matrix with angles at the ends of their ranges was decoded.
C18_Witness ==
  /\ decoded.done
  /\ ValidMatrix(decoded.m)
  /\ decoded.out.yaw = 180
  /\ decoded.out.roll = -135
  /\ decoded.out.distance = 46

\* C19: the identity matrix decodes to pitch 0, yaw 0, roll 0, distance 0.
C19_IdentityDecodesToZero ==
  (decoded.done /\ decoded.m = IdentityMatrix) =>
    /\ decoded.out.some
    /\ decoded.out.pitch = 0
    /\ decoded.out.yaw = 0
    /\ decoded.out.roll = 0
    /\ decoded.out.distance = 0

\* The identity matrix was decoded.
C19_Witness == decoded.done /\ decoded.m = IdentityMatrix

\* C20: a matrix with m[6] = -1 decodes to a numeric pitch.
C20_EdgePitchIsNumber ==
  (decoded.done /\ decoded.m.m6 = -2) =>
    (decoded.out.some /\ decoded.out.pitch # NaN /\ decoded.out.pitch = 90)

\* A matrix with m[6] = -1 was decoded.
C20_Witness == decoded.done /\ decoded.m.m6 = -2 /\ decoded.m.m2 = 1

\* C17: what a capture draws is fixed when it is triggered: the readout on
\* its canvas is that of the PoseState of the triggering state, no later
\* step changes it, and the image handed to the sink carries that readout.
C17_CaptureFixedAtTrigger ==
  [][/\ \A i \in 1..Len(captures) : captures'[i].hud = captures[i].hud
     /\ Len(captures') > Len(captures) =>
          captures'[Len(captures')].hud \in {Hud(pose), NoHud}
     /\ \A e \in sink' : e.hud = captures'[e.id].hud]_vars

\* An image reached the sink after a frame had replaced the PoseState the
\* capture was drawn with.
C17_Witness ==
  \E e \in sink :
    /\ captures[e.id].drawn
    /\ e.hud # Hud(pose)
    /\ e.hud.distance # 0


\* C21: once the input is silent for good, every tick smooths a raw level of
\* 0, the smoothed level never rises and falls while it is above 0, and the
\* published volume eventually is 0 and stays 0.
C21_SilenceDecays ==
  /\ [][volume.silent =>
          /\ volume'.smoothed = Smooth(0, volume.smoothed)
          /\ volume'.smoothed <= volume.smoothed
          /\ (volume.smoothed > 0 => volume'.smoothed < volume.smoothed)]_vars
  /\ [](volume.silent => <>[](volume.display = 0))

\* Silence has brought a published volume down to 0 while the smoothed level
\* is still above 0.
C21_Witness ==
  volume.silent /\ volume.decayed /\ volume.display = 0 /\ volume.smoothed > 0

\* C23: whatever buffers the ticks have read, the smoothed level is within
\* [0, 100] and the published volume is an integer of 0..100.
C23_VolumeInRange ==
  /\ volume.smoothed \in 0..10000
  /\ volume.display \in 0..100

\* Loud input has driven the published volume to its largest value.
C23_Witness == ~volume.silent /\ volume.display = 95 /\ volume.smoothed > 9490


RECURSIVE Pow(_, _)
Pow(b, n) == IF n = 0 THEN 1 ELSE b * Pow(b, n - 1)

\* C22: from level 0 and with the raw level held at r, the smoothed level
\* after n ticks is r * (1 - 0.85^n), each tick having applied
\* 0.15 * raw + 0.85 * smoothed once.  With 0.85 = 17/20 the level is
\* r * (20^n - 17^n) / 20^n.
C22_StepResponse ==
  /\ step.den = Pow(20, step.n)
  /\ step.num = step.raw * (Pow(20, step.n) - Pow(17, step.n))

\* Three ticks at the raw level 100: the level is 100 * (1 - 0.85^3).
C22_Witness == step.raw = 10000 /\ step.n = 3 /\ step.num = 30870000


\* C24: every length of the drawn HUD is the length it has at the design
\* width 400 multiplied by W / 400, W being the canvas width, so its ratio to
\* W is the same at every width.
C24_HudScalesWithWidth ==
  layout.done =>
    \A f \in DOMAIN layout.dims :
      layout.dims[f] * RefWidth = HudLayout(RefWidth)[f] * layout.width

\* A HUD laid out on a canvas that does not have the design width.
C24_Witness ==
  /\ layout.done
  /\ layout.width = 750
  /\ layout.dims.margin = 16 * 750
  /\ layout.dims.valueFont = 15 * 750


\* C25: a step of a capture (the call, the toBlob callback, the settling of
\* the share, the commit of the flag), whether the capture succeeds or fails,
\* leaves the PoseState, the smoothed level and the pending animation frames
\* as they are.
C25_CaptureLeavesTickLoop ==
  [][captureVars' # captureVars =>
       /\ pose' = pose
       /\ smoothedVolumeRef' = smoothedVolumeRef
       /\ rafPending' = rafPending]_vars

\* A frame has replaced the PoseState while a capture is in flight, a failed
\* capture lies behind, and the next frame is scheduled.
C25_Witness ==
  /\ rafPending > 0
  /\ \E i \in 1..Len(captures) :
       /\ captures[i].st \in InFlight
       /\ captures[i].hud # Hud(pose)
  /\ \E i \in 1..Len(captures) : captures[i].st \in {"noCtx", "drawFailed"}


\* C26: for the PoseState of a session that tracks no face and publishes the
\* estimator's volume, the composite shows the same readout as the live
\* overlay: the same absolute angles, distance and volume and the same
\* status indicator.
C26_SameReadout ==
  LET p == [InitialPose EXCEPT !.volume = volume.display]
  IN CompositeReadout(p) = LiveReadout(p)


\* C27: a capture that is in flight reaches its end, completed or failed,
\* whether or not the session is stopped meanwhile.
C27_CaptureRunsToEnd ==
  \A i \in 1..MaxCalls :
    [](Len(captures) >= i /\ captures[i].st \in InFlight
         => <>(Len(captures) >= i /\ captures[i].st \in Ended))

\* A capture completed after the session was stopped: its image is in the
\* sink and the setIsCapturing(false) of its end went to the unmounted
\* component.
C27_Witness ==
  /\ ~mounted
  /\ streamRef = "stopped"
  /\ Len(captures) > 0
  /\ captures[Len(captures)].st = "done"
  /\ \E e \in sink : e.id = Len(captures)
  /\ isCapturing
  /\ ~pendingCapturing


\* C28: a frame runs or is scheduled only after poseService.init() has
\* succeeded and setupSensors has returned; after a failed init() the error
\* of the mounted component is set, no sensor was set up and no frame has
\* run or is scheduled.
C28_LoopAfterInitAndSetup ==
  /\ (frames > 0 \/ rafPending > 0 \/ lastFrame.kind # "none")
       => faceLandmarker /\ initPc = "monitoring"
  /\ (streamRef # "null" \/ audioContextRef # "null" \/ analyserRef \/ videoSrc)
       => faceLandmarker /\ initPc = "monitoring"
  /\ initPc = "failed" =>
       /\ mounted => error = "init"
       /\ ~faceLandmarker
       /\ streamRef = "null" /\ audioContextRef = "null"
       /\ ~analyserRef /\ ~videoSrc
       /\ frames = 0 /\ rafPending = 0 /\ lastFrame = NoFrame

\* init() has failed on a mounted component that the user then tried to
\* capture from.
C28_Witness ==
  /\ initPc = "failed"
  /\ mounted
  /\ error = "init"
  /\ calls > 0

\* C29: the analyser exists only once setupSensors has created it, is never
\* removed, and every frame that completes runs the analyser branch exactly
\* when it exists; without an analyser the smoothed level is 0 and the
\* published volume is 0.
C29_AnalyserOnceOrNever ==
  /\ [](/\ analyserRef => initPc = "monitoring" /\ audioContextRef # "null"
        /\ lastFrame.kind = "ok" => lastFrame.audio = analyserRef
        /\ ~analyserRef => smoothedVolumeRef = 0 /\ pose.volume = 0)
  /\ [][analyserRef => analyserRef']_vars

\* Sensor setup failed and frames went on publishing samples of a tracked
\* face with volume 0.
C29_Witness ==
  /\ initPc = "monitoring"
  /\ ~analyserRef
  /\ error = "sensor"
  /\ lastFrame.kind = "ok"
  /\ lastFrame.sample
  /\ pose.distance # 0
  /\ pose.volume = 0

====
